---- MODULE Spec2Model ----
(***************************************************************************)
(* Model of content/conf.py, the Sphinx configuration of the lesson        *)
(* "Julia for High-Performance Scientific Computing".                      *)
(*                                                                         *)
(* The state is what executing conf.py and calling its setup(app) hook     *)
(* can read or change: the process environment, the working directory,     *)
(* sys.path, sys.modules and the path importer cache (changed by the       *)
(* import of sphinx_lesson.directives), the namespace produced by the most *)
(* recent complete execution of conf.py, and the registrations received by *)
(* the Sphinx application.                                                 *)
(* File system paths are sequences of components below the root.           *)
(***************************************************************************)
EXTENDS Integers, Sequences, FiniteSets, TLC

VARIABLES
    environ,            \* os.environ restricted to GITHUB_REF: a function on a subset of {"GITHUB_REF"}
    cwd,                \* the process working directory
    sys_path,           \* sys.path, a sequence of directories
    sys_modules,        \* the names of the modules in sys.modules
    importer_cache,     \* the directories that have an entry in sys.path_importer_cache
    importable,         \* whether the package sphinx_lesson is installed in site-packages
    github_repo_name,   \* the value assigned on line 24 of conf.py
    ns,                 \* the namespace of the most recent complete execution of conf.py (empty before the first)
    load_environ,       \* os.environ as it was when ns was produced
    load_cwd,           \* the working directory when ns was produced
    nLoads,             \* how many times conf.py has been executed to its end
    nFailed,            \* how many executions of conf.py ended in ImportError on line 125
    app,                \* the registrations the Sphinx application has received
    nSetups,            \* how many times setup(app) has been called
    setup_environ       \* os.environ as it was when setup(app) was last called

vars == <<environ, cwd, sys_path, sys_modules, importer_cache, importable,
          github_repo_name, ns, load_environ, load_cwd, nLoads, nFailed, app,
          nSetups, setup_environ>>

\* ---------------------------------------------------------------- bounds

MaxLoads == 2
MaxSetups == 2
MaxFailed == 1

\* ---------------------------------------------------------------- inputs

\* Values GITHUB_REF may hold; the variable may also be unset.
EnvValues ==
    { "", "refs/heads/main", "refs/heads/master", "Refs/Heads/Main",
      "refs/heads/main/x", "xrefs/heads/main" }

Environs == { <<>> } \cup { ("GITHUB_REF" :> v) : v \in EnvValues }

\* Working directories a build may be started from.
Cwds == { <<"repo">>, <<"repo", "content">> }

\* Absolute locations conf.py may be loaded from (__file__).
ConfFiles ==
    { <<"repo", "content", "conf.py">>,
      <<"docs", "conf.py">>,
      <<"docs", "..", "conf.py">>,
      <<"lesson", "conf.py">> }

\* Symbolic links of the file system: /docs -> /repo/content.
Symlinks == (<<"docs">> :> <<"repo", "content">>)

\* Values line 24 may assign; the committed file assigns the second one.
RepoNames == { "", "Julia-for-HPC", " ", "julia-course" }

\* The directory installed packages live in; sys.path holds it from the start.
SitePackages == <<"usr", "lib", "python3">>

SysPath0 == << SitePackages >>

\* The modules every interpreter has imported before conf.py runs; lines 13,
\* 14, 85 and 146 import among these only.
BaseModules == {"os", "os.path", "sys"}

\* ---------------------------------------------------------------- os.path

RECURSIVE Normpath(_)
Normpath(p) ==
    IF p = <<>> THEN <<>>
    ELSE LET init == Normpath(SubSeq(p, 1, Len(p) - 1))
             last == p[Len(p)]
         IN  IF last = "." THEN init
             ELSE IF last = ".."
                  THEN IF init = <<>> THEN <<>> ELSE SubSeq(init, 1, Len(init) - 1)
                  ELSE Append(init, last)

\* os.path.abspath of a relative path: normpath(join(getcwd(), path)).
Abspath(dir, rel) == Normpath(dir \o rel)

Dirname(p) == IF p = <<>> THEN <<>> ELSE SubSeq(p, 1, Len(p) - 1)

Basename(p) == IF p = <<>> THEN "" ELSE p[Len(p)]

\* os.path.realpath walks the components from the root: "." is skipped, ".."
\* steps up from the directory resolved so far (staying at the root), and a
\* component that names a symbolic link is replaced by the link's resolved
\* target before the walk goes on.
RECURSIVE Resolve(_, _)
Resolve(done, rest) ==
    IF rest = <<>> THEN done
    ELSE IF Head(rest) = "." THEN Resolve(done, Tail(rest))
    ELSE IF Head(rest) = ".."
         THEN Resolve(IF done = <<>> THEN <<>> ELSE SubSeq(done, 1, Len(done) - 1),
                      Tail(rest))
    ELSE LET nxt == Append(done, Head(rest))
         IN  IF nxt \in DOMAIN Symlinks
             THEN Resolve(Resolve(<<>>, Symlinks[nxt]), Tail(rest))
             ELSE Resolve(nxt, Tail(rest))

Realpath(p) == Resolve(<<>>, p)

\* ---------------------------------------------------------------- Python helpers

\* dict.get(key, default)
EnvGet(e, key, default) == IF key \in DOMAIN e THEN e[key] ELSE default

\* The value of a double-quoted string literal given as its source characters:
\* a backslash followed by a newline continues the line and yields nothing.
RECURSIVE PyStringLiteral_keep(_)
PyStringLiteral_keep(cs) ==
    IF cs = <<>> THEN "" ELSE cs[1] \o PyStringLiteral_keep(Tail(cs))

RECURSIVE PyStringLiteral(_)
PyStringLiteral(cs) ==
    IF cs = <<>> THEN ""
    ELSE IF Len(cs) >= 2 /\ cs[1] = "\\" /\ cs[2] = "\n"
         THEN PyStringLiteral(SubSeq(cs, 3, Len(cs)))
         ELSE cs[1] \o PyStringLiteral(Tail(cs))

\* The characters between the quotes of the literal on lines 149-150.
DeferLiteral == << "\\", "\n", "d", "e", "f", "e", "r" >>

\* ---------------------------------------------------------------- conf.py

\* line 15: sys.path.insert(0, os.path.abspath('.'))
SysPathInsert_once(sp, dir) ==
    LET d == Abspath(dir, <<".">>)
    IN  IF \E i \in 1..Len(sp) : sp[i] = d THEN sp ELSE <<d>> \o sp

SysPathInsert(sp, dir) == << Abspath(dir, <<".">>) >> \o sp

\* line 125: from sphinx_lesson.directives import _BaseCRDirective
\* The modules the import statement puts into sys.modules.
LessonModules == {"sphinx_lesson", "sphinx_lesson.directives"}

\* The import looks for the module on disk only when sys.modules lacks it.
ImportSearches(mods) == "sphinx_lesson.directives" \notin mods

\* The import raises ImportError when the module is neither loaded nor installed.
ImportFails(mods, inst) == ImportSearches(mods) /\ ~inst

ImportModules(mods) == mods \cup LessonModules

\* A search asks every entry of sys.path for the package (it is found in the
\* last one, if at all) and, once the package is found, the package's own
\* directory for the submodule; each directory asked gets a cache entry.
ImportCache(cache, mods, inst, sp) ==
    IF ~ImportSearches(mods) THEN cache
    ELSE cache \cup { sp[i] : i \in 1..Len(sp) }
               \cup (IF inst THEN { Append(SitePackages, "sphinx_lesson") } ELSE {})

\* line 92: github_repo_name or basename(dirname(realpath(__file__)))
GithubRepo_dirname(name, file) == Basename(Dirname(Realpath(file)))

GithubRepo_norealpath(name, file) ==
    IF name # "" THEN name ELSE Basename(Dirname(file))

GithubRepo(name, file) ==
    IF name # "" THEN name ELSE Basename(Dirname(Realpath(file)))

\* lines 127-134: the directive classes
TypealongDirective == [extra_classes |-> <<"toggle-shown", "dropdown">>]

ParametersDirective_same == [extra_classes |-> <<"toggle-shown", "dropdown">>]

ParametersDirective == [extra_classes |-> <<"dropdown">>]

DemoDirective == [extra_classes |-> <<"toggle-shown", "dropdown">>]

\* line 136
DIRECTIVES == <<"TypealongDirective", "ParametersDirective", "DemoDirective">>

\* line 147: os.environ.get('GITHUB_REF', '') == 'refs/heads/main'
GateOpen_default(e) == EnvGet(e, "GITHUB_REF", "refs/heads/main") = "refs/heads/main"

GateOpen(e) == EnvGet(e, "GITHUB_REF", "") = "refs/heads/main"

\* lines 148-151
HtmlJsFiles ==
    << << "https://plausible.io/js/script.js",
          ("data-domain" :> "enccs.github.io/julia-for-hpc")
             @@ ("defer" :> PyStringLiteral(DeferLiteral)) >> >>

\* lines 87-95
HtmlContext_main(user, repo, version, path) ==
    [ display_github |-> TRUE,
      github_user |-> user,
      github_repo |-> repo,
      github_version |-> "main",
      conf_py_path |-> path ]

HtmlContext(user, repo, version, path) ==
    [ display_github |-> TRUE,
      github_user |-> user,
      github_repo |-> repo,
      github_version |-> version,
      conf_py_path |-> path ]

\* The module namespace after executing conf.py from `file` with line 24
\* assigning `name`, in environment e.
Namespace(e, name, file) ==
    LET project == "Julia for High-Performance Scientific Computing"
        github_user == "enccs"
        github_version == "master"
        conf_py_path == "/content/"
        base ==
          [ __file__ |-> file,
            project |-> project,
            copyright |-> "2022, EuroCC National Competence Center Sweden",
            author |-> "Kjartan Thor Wikfeldt",
            github_user |-> github_user,
            github_repo_name |-> name,
            github_version |-> github_version,
            conf_py_path |-> conf_py_path,
            extensions |-> <<"sphinx.ext.githubpages", "sphinx_lesson", "sphinx.ext.todo">>,
            jupyter_execute_notebooks |-> "cache",
            exclude_patterns |-> <<"code*", "README*", "_build", "Thumbs.db",
                                   ".DS_Store", "jupyter_execute", "*venv*">>,
            html_theme |-> "sphinx_rtd_theme",
            html_logo |-> "img/ENCCS.jpg",
            html_favicon |-> "img/favicon.ico",
            html_title |-> project,
            html_static_path |-> <<"css">>,
            html_context |-> HtmlContext(github_user, GithubRepo(name, file),
                                         github_version, conf_py_path),
            todo_include_todos |-> TRUE,
            TypealongDirective |-> TypealongDirective,
            ParametersDirective |-> ParametersDirective,
            DemoDirective |-> DemoDirective,
            DIRECTIVES |-> DIRECTIVES ]
    IN  IF GateOpen(e) THEN base @@ ("html_js_files" :> HtmlJsFiles) ELSE base

\* lines 141-144: the effect of setup(app) on the application
SetupEffect_gated(a) ==
    IF GateOpen(environ)
    THEN [a EXCEPT !.css_files = Append(@, "overrides.css")]
    ELSE a

SetupEffect_directives(a) ==
    [a EXCEPT !.css_files = Append(@, "overrides.css"),
              !.directives = @ \o DIRECTIVES]

SetupEffect_script(a) ==
    [a EXCEPT !.css_files = Append(@, "overrides.css"),
              !.js_files = IF GateOpen(environ) THEN @ \o HtmlJsFiles ELSE @]

SetupEffect(a) == [a EXCEPT !.css_files = Append(@, "overrides.css")]

\* ---------------------------------------------------------------- state machine

App0 == [css_files |-> <<>>, js_files |-> <<>>, directives |-> <<>>]

InitWith(name) ==
    /\ environ \in Environs
    /\ cwd \in Cwds
    /\ sys_path = SysPath0
    /\ sys_modules = BaseModules
    /\ importer_cache = { SitePackages }
    /\ importable \in BOOLEAN
    /\ github_repo_name = name
    /\ ns = <<>>
    /\ load_environ = <<>>
    /\ load_cwd = <<>>
    /\ nLoads = 0
    /\ nFailed = 0
    /\ app = App0
    /\ nSetups = 0
    /\ setup_environ = <<>>

Init == InitWith("Julia-for-HPC")

InitRepo == \E name \in RepoNames : InitWith(name)

\* The shell sets or changes GITHUB_REF.
SetEnv ==
    /\ \E v \in EnvValues : environ' = ("GITHUB_REF" :> v)
    /\ UNCHANGED <<cwd, sys_path, sys_modules, importer_cache, importable,
                   github_repo_name, ns, load_environ, load_cwd,
                   nLoads, nFailed, app, nSetups, setup_environ>>

\* The shell unsets GITHUB_REF.
UnsetEnv ==
    /\ environ' = <<>>
    /\ UNCHANGED <<cwd, sys_path, sys_modules, importer_cache, importable,
                   github_repo_name, ns, load_environ, load_cwd,
                   nLoads, nFailed, app, nSetups, setup_environ>>

Chdir ==
    /\ \E d \in Cwds : cwd' = d
    /\ UNCHANGED <<environ, sys_path, sys_modules, importer_cache, importable,
                   github_repo_name, ns, load_environ, load_cwd,
                   nLoads, nFailed, app, nSetups, setup_environ>>

\* The package sphinx_lesson is installed into site-packages.
Install ==
    /\ ~importable
    /\ importable' = TRUE
    /\ UNCHANGED <<environ, cwd, sys_path, sys_modules, importer_cache,
                   github_repo_name, ns, load_environ, load_cwd, nLoads, nFailed,
                   app, nSetups, setup_environ>>

\* conf.py is executed from top to bottom in a fresh namespace.
Load ==
    /\ nLoads < MaxLoads
    /\ ~ImportFails(sys_modules, importable)
    /\ \E file \in ConfFiles :
          ns' = Namespace(environ, github_repo_name, file)
    /\ sys_path' = SysPathInsert(sys_path, cwd)
    /\ sys_modules' = ImportModules(sys_modules)
    /\ importer_cache' = ImportCache(importer_cache, sys_modules, importable, sys_path')
    /\ load_environ' = environ
    /\ load_cwd' = cwd
    /\ nLoads' = nLoads + 1
    /\ UNCHANGED <<environ, cwd, importable, github_repo_name, nFailed, app,
                   nSetups, setup_environ>>

\* conf.py is executed up to line 125, where the import raises ImportError:
\* line 15 has already run and no namespace is produced.
LoadImportError ==
    /\ nFailed < MaxFailed
    /\ ImportFails(sys_modules, importable)
    /\ sys_path' = SysPathInsert(sys_path, cwd)
    /\ importer_cache' = ImportCache(importer_cache, sys_modules, importable, sys_path')
    /\ nFailed' = nFailed + 1
    /\ UNCHANGED <<environ, cwd, sys_modules, importable, github_repo_name, ns,
                   load_environ, load_cwd, nLoads, app, nSetups, setup_environ>>

\* The application calls the setup function the namespace defines.
Setup ==
    /\ nLoads > 0
    /\ nSetups < MaxSetups
    /\ app' = SetupEffect(app)
    /\ nSetups' = nSetups + 1
    /\ setup_environ' = environ
    /\ UNCHANGED <<environ, cwd, sys_path, sys_modules, importer_cache, importable,
                   github_repo_name, ns, load_environ, load_cwd, nLoads, nFailed>>

Next == SetEnv \/ UnsetEnv \/ Chdir \/ Install \/ Load \/ LoadImportError \/ Setup

Spec == Init /\ [][Next]_vars

SpecRepo == InitRepo /\ [][Next]_vars

TypeOK ==
    /\ environ \in Environs
    /\ cwd \in Cwds
    /\ nLoads \in 0..MaxLoads
    /\ nSetups \in 0..MaxSetups
    /\ nFailed \in 0..MaxFailed
    /\ importable \in BOOLEAN
    /\ github_repo_name \in RepoNames

Loaded == nLoads > 0

\* ---------------------------------------------------------------- properties

MainEnv == ("GITHUB_REF" :> "refs/heads/main")

ScriptUrl == "https://plausible.io/js/script.js"

HasJsFiles == "html_js_files" \in DOMAIN ns

Range(f) == { f[i] : i \in DOMAIN f }

\* C1: when conf.py was loaded with GITHUB_REF unset or holding anything other
\* than exactly 'refs/heads/main', the namespace defines no html_js_files and
\* the application has received no script, before and after setup(app).
C1_NoScriptUnlessExactMatch ==
    (Loaded /\ load_environ # MainEnv) =>
        /\ ~HasJsFiles
        /\ app.js_files = <<>>

C1_Witness ==
    /\ Loaded
    /\ nSetups > 0
    /\ load_environ = ("GITHUB_REF" :> "refs/heads/main/x")
    /\ ~HasJsFiles

\* C2: when conf.py was loaded with GITHUB_REF exactly 'refs/heads/main',
\* html_js_files holds exactly one entry, the plausible.io script with the two
\* attributes data-domain = 'enccs.github.io/julia-for-hpc' and defer = 'defer'.
C2_ScriptWhenExactMatch ==
    (Loaded /\ load_environ = MainEnv) =>
        /\ HasJsFiles
        /\ Len(ns.html_js_files) = 1
        /\ ns.html_js_files[1][1] = ScriptUrl
        /\ DOMAIN ns.html_js_files[1][2] = {"data-domain", "defer"}
        /\ ns.html_js_files[1][2]["data-domain"] = "enccs.github.io/julia-for-hpc"
        /\ ns.html_js_files[1][2]["defer"] = "defer"

C2_Witness ==
    /\ Loaded
    /\ load_environ = MainEnv
    /\ HasJsFiles
    /\ ns.html_js_files[1][2]["defer"] = "defer"

\* C3: every call of setup(app) registers the stylesheet 'overrides.css' exactly
\* once, whatever GITHUB_REF holds: after n calls the application holds exactly
\* n registrations of it and of nothing else.
C3_StylesheetPerSetup ==
    app.css_files = [i \in 1..nSetups |-> "overrides.css"]

C3_Witness ==
    /\ nSetups >= 2
    /\ setup_environ = <<>>
    /\ load_environ = MainEnv
    /\ Len(app.css_files) = 2

\* C4 as stated: the script reference is an effect of the hook, so none exists
\* before setup(app) has run, and afterwards one exists exactly when GITHUB_REF
\* matched at the time of the call.
C4_ScriptDecidedAtHook ==
    /\ nSetups = 0 => (~HasJsFiles /\ app.js_files = <<>>)
    /\ nSetups > 0 => ((HasJsFiles \/ app.js_files # <<>>) <=> setup_environ = MainEnv)

\* C4 amended: the script reference is an effect of loading conf.py: it is
\* defined exactly when GITHUB_REF matched at load time, whether or not the hook
\* has run and whatever GITHUB_REF holds when it runs, and the hook itself
\* registers no script.
C4_ScriptDecidedAtLoad ==
    /\ Loaded => (HasJsFiles <=> load_environ = MainEnv)
    /\ app.js_files = <<>>

C4_Witness ==
    /\ Loaded
    /\ nSetups > 0
    /\ load_environ = MainEnv
    /\ setup_environ = ("GITHUB_REF" :> "refs/heads/master")
    /\ HasJsFiles

\* C5 as stated: the three directive classes have non-empty tag sets and every
\* two of them differ in at least one tag.
C5_PairwiseDistinct ==
    Loaded =>
        LET t == Range(ns.TypealongDirective.extra_classes)
            p == Range(ns.ParametersDirective.extra_classes)
            d == Range(ns.DemoDirective.extra_classes)
        IN  /\ t # {} /\ p # {} /\ d # {}
            /\ t # p /\ p # d /\ t # d

\* C5 amended: the three tag sets are non-empty and fixed, ParametersDirective
\* ({dropdown}) differs from the other two, and TypealongDirective and
\* DemoDirective have the same tags (toggle-shown, dropdown).
C5_TagSets ==
    Loaded =>
        /\ ns.TypealongDirective.extra_classes = <<"toggle-shown", "dropdown">>
        /\ ns.ParametersDirective.extra_classes = <<"dropdown">>
        /\ ns.DemoDirective.extra_classes = <<"toggle-shown", "dropdown">>
        /\ Range(ns.ParametersDirective.extra_classes)
              # Range(ns.TypealongDirective.extra_classes)
        /\ Range(ns.ParametersDirective.extra_classes)
              # Range(ns.DemoDirective.extra_classes)
        /\ Range(ns.TypealongDirective.extra_classes)
              = Range(ns.DemoDirective.extra_classes)

C5_Witness ==
    /\ Loaded
    /\ Len(ns.ParametersDirective.extra_classes) = 1
    /\ Len(ns.DemoDirective.extra_classes) = 2

\* C6: a load that follows an earlier load yields the same project, author,
\* html_theme, html_title and html_context, whatever happened in between; when
\* the environment, the working directory and the file are the same as at the
\* earlier load, the whole namespace is the same.
C6_RepeatedLoad ==
    [][ (nLoads > 0 /\ nLoads' = nLoads + 1) =>
            /\ ns'.project = ns.project
            /\ ns'.author = ns.author
            /\ ns'.html_theme = ns.html_theme
            /\ ns'.html_title = ns.html_title
            /\ ns'.html_context = ns.html_context
            /\ (environ = load_environ /\ cwd = load_cwd
                    /\ ns'["__file__"] = ns["__file__"]) => ns' = ns ]_vars

C6_Witness ==
    /\ nLoads >= 2
    /\ nSetups > 0
    /\ ns.project = "Julia for High-Performance Scientific Computing"
    /\ ns.html_context.github_repo = "Julia-for-HPC"

\* C7 as stated: a load leaves sys.path as it was.
C7_SysPathUntouched == Loaded => sys_path = SysPath0

\* C7 amended: a load is not free of side effects.  Every execution of conf.py,
\* also one that ends in ImportError on line 125, puts the working directory at
\* the front of sys.path, also when it is already there, so sys.path is one
\* entry longer after each.  An execution that finds sphinx_lesson.directives
\* not yet imported adds sphinx_lesson and sphinx_lesson.directives to
\* sys.modules (when the package is installed) and cache entries for the
\* directories searched; later loads leave sys.modules and the cache as they
\* were.  The environment, the working directory and the application's
\* registrations are left as they were.
C7_LoadEffect ==
    /\ [](Len(sys_path) = Len(SysPath0) + nLoads + nFailed)
    /\ [](sys_modules = IF Loaded
                           THEN {"os", "os.path", "sys",
                                 "sphinx_lesson", "sphinx_lesson.directives"}
                           ELSE {"os", "os.path", "sys"})
    /\ [][ (nLoads' # nLoads \/ nFailed' # nFailed) =>
              /\ sys_path' = <<cwd>> \o sys_path
              /\ environ' = environ
              /\ cwd' = cwd
              /\ app' = app
              /\ importer_cache \subseteq importer_cache'
              /\ (nLoads = 0) => cwd \in importer_cache'
              /\ (nLoads = 0 /\ nLoads' = 1) =>
                    <<"usr", "lib", "python3", "sphinx_lesson">> \in importer_cache'
              /\ (nLoads > 0) =>
                    (sys_modules' = sys_modules /\ importer_cache' = importer_cache)
              /\ (nFailed' # nFailed) => (sys_modules' = sys_modules /\ ns' = ns) ]_vars

C7_Witness ==
    /\ nLoads >= 2
    /\ nFailed >= 1
    /\ Len(sys_path) = 4
    /\ sys_path[2] = sys_path[3]
    /\ sys_path[1] \notin importer_cache
    /\ "sphinx_lesson.directives" \in sys_modules

\* C8: html_context['github_repo'] is github_repo_name when that is not empty,
\* and the name of the directory holding conf.py, symbolic links resolved (a
\* ".." after a link steps up from the link's target), when it is empty; with the committed name it is 'Julia-for-HPC' wherever the
\* file is loaded from.
C8_GithubRepo ==
    Loaded =>
        LET repo == ns.html_context.github_repo
            file == ns["__file__"]
        IN  /\ github_repo_name # "" => repo = github_repo_name
            /\ github_repo_name = "Julia-for-HPC" => repo = "Julia-for-HPC"
            /\ github_repo_name = "" =>
                  /\ file = <<"repo", "content", "conf.py">> => repo = "content"
                  /\ file = <<"docs", "conf.py">> => repo = "content"
                  /\ file = <<"docs", "..", "conf.py">> => repo = "repo"
                  /\ file = <<"lesson", "conf.py">> => repo = "lesson"
                  /\ repo \in {"content", "repo", "lesson"}

C8_Witness ==
    /\ Loaded
    /\ github_repo_name = ""
    /\ ns["__file__"] = <<"docs", "conf.py">>
    /\ ns.html_context.github_repo = "content"

\* C9: after any number of loads and calls of setup(app) the application holds
\* nothing besides stylesheet registrations: no directive and no script; and
\* DIRECTIVES holds the three classes in definition order.
C9_OnlyStylesheet ==
    /\ app.directives = <<>>
    /\ app.js_files = <<>>
    /\ DOMAIN app = {"css_files", "js_files", "directives"}
    /\ Loaded => ns.DIRECTIVES =
                    <<"TypealongDirective", "ParametersDirective", "DemoDirective">>

C9_Witness ==
    /\ nLoads >= 2
    /\ nSetups >= 2
    /\ app.directives = <<>>
    /\ Len(app.css_files) = 2

\* C10: in every loaded namespace html_title is project, html_context carries
\* the top-level github_user, github_version and conf_py_path, display_github
\* is true, and html_context has exactly its five keys.
C10_DerivedValues ==
    Loaded =>
        /\ ns.html_title = ns.project
        /\ ns.html_context.github_user = ns.github_user
        /\ ns.html_context.github_version = ns.github_version
        /\ ns.html_context.conf_py_path = ns.conf_py_path
        /\ ns.html_context.display_github = TRUE
        /\ DOMAIN ns.html_context =
              {"display_github", "github_user", "github_repo",
               "github_version", "conf_py_path"}

C10_Witness ==
    /\ Loaded
    /\ ns.html_title = "Julia for High-Performance Scientific Computing"
    /\ ns.html_context.github_version = "master"
    /\ ns.html_context.conf_py_path = "/content/"

====
